---------------------------- MODULE Spec2Model ----------------------------
(***************************************************************************)
(* State-machine model of four parts of the MimiC compiler:                *)
(*   - the dead global value elimination pass (src/src/opt/passes/dge.cpp) *)
(*   - the algebraic simplification pass      (src/unnamed/part_001)       *)
(*   - the aarch32 liveness analysis pass     (src/unnamed/part_003)       *)
(*   - the semantic analyzer's scopes         (src/src/mid/analyzer.cpp)   *)
(* Each part has its own specifications (SpecDGE, SpecAlg, SpecLive,       *)
(* SpecSema, ...); the variables of the parts a specification does not     *)
(* exercise stay at their idle values.                                     *)
(***************************************************************************)
EXTENDS Integers, Sequences, FiniteSets, TLC

VARIABLES
  \* ---- dead global value elimination ----
  vals,          \* the module's top-level values: id -> [kind, link, body, refs]
  global_vals,   \* UserPtrList: the module's ordered list of top-level values
  uses,          \* id -> set of top-level values holding a use of it
  changed,       \* the value RunOnModule returned last
  dge_runs,      \* number of RunOnModule calls so far
  dge_prev,      \* history: the list the last RunOnModule call started from
  dge_log,       \* history: the values the last call examined, in order
  \* ---- algebraic simplification ----
  operand_,      \* std::vector<int>: the constants collected so far
  needFold_,     \* set when the visited instruction is to be replaced
  changed_,      \* the flag RunOnBlock returns
  finalSSA_,     \* the replacement value, Null when none
  alg_pc,        \* "idle" between blocks; inside RunOnBlock's loop "scan"
                 \* at the loop head and "visited" after an iteration's body
  alg_cur,       \* history: the instruction the loop visited last
  alg_repl,      \* history: the value that instruction was replaced by
  alg_warn,      \* history: warnings logged during that visit
  alg_pre,       \* history: operand_ and changed_ when that visit started
  alg_ret,       \* the value RunOnBlock returned last
  \* ---- liveness analysis ----
  insts,         \* InstPtrList: the function's linear instruction list
  labels_,       \* label -> block id
  next_bid_,     \* the last block id handed out
  bbs_,          \* block id -> BasicBlock, for the blocks created so far
  order_,        \* block ids in the order of the instruction list
  rpo,           \* RunLivenessAnalysis: the traversal order
  live_changed,  \* RunLivenessAnalysis: the changed flag of its loop
  live_intervals,\* vreg -> [start_pos, end_pos]
  live_pc,       \* position in RunOn
  \* ---- semantic analyzer ----
  symbols_,      \* nested map of symbols: the scopes from the outermost to
                 \* the current one, each [sid, items]
  aliases_,      \* nested map of type aliases
  structs_,      \* nested map of struct types
  enums_,        \* nested map of enumerations
  in_func_,      \* set by a function definition, cleared on entering its body
  funcs_,        \* function id -> [type, is_decl]
  cur_ret_,      \* return type of the function being analysed
  last_struct_name_,  \* name of the struct definition analysed last
  struct_elems_,      \* fields collected for the struct being defined
  struct_elem_names_, \* their names
  struct_elem_base_,  \* base type of the struct element analysed last
  struct_types,  \* the StructType objects created so far: [id, elems]
  sema_pc,       \* "ready" before a top-level AST is analysed, "analysed" after
  sema_calls,    \* number of top-level ASTs analysed so far
  sema_ast,      \* history: the top-level AST analysed last
  sema_pre,      \* history: the four nested maps when that analysis started
  sema_ret,      \* history: the type that analysis returned
  sema_exits,    \* history: the returns of AnalyzeOn(FuncDefAST / BlockAST)
                 \* during that analysis
  \* ---- a block's instruction list under algebraic simplification ----
  block_insts,   \* block->insts(): the block's instruction list
  block_orig,    \* history: the list RunOnBlock started from
  block_pc       \* "idle" with no block, "ready" before RunOnBlock, "done"
                 \* after

dgeVars == <<vals, global_vals, uses, changed, dge_runs, dge_prev, dge_log>>

algVars == <<operand_, needFold_, changed_, finalSSA_, alg_pc, alg_cur,
             alg_repl, alg_warn, alg_pre, alg_ret>>

liveVars == <<insts, labels_, next_bid_, bbs_, order_, rpo, live_changed,
              live_intervals, live_pc>>

semaVars == <<symbols_, aliases_, structs_, enums_, in_func_, funcs_, cur_ret_,
              last_struct_name_, struct_elems_, struct_elem_names_,
              struct_elem_base_, struct_types, sema_pc, sema_calls, sema_ast,
              sema_pre, sema_ret, sema_exits>>

blockVars == <<block_insts, block_orig, block_pc>>

vars == <<dgeVars, algVars, liveVars, semaVars, blockVars>>

---------------------------------------------------------------------------
(***************************************************************************)
(* Idle values of each part                                                *)
(***************************************************************************)

\* The absent SSA value (nullptr).
Null == [k |-> "null", v |-> 0]

\* The module before any value is added, and the pass before its first run.
IdleDGE ==
  /\ vals = <<>>
  /\ global_vals = <<>>
  /\ uses = <<>>
  /\ changed = FALSE
  /\ dge_runs = 0
  /\ dge_prev = <<>>
  /\ dge_log = <<>>

\* The pass object as constructed.
IdleAlg ==
  /\ operand_ = <<>>
  /\ needFold_ = FALSE
  /\ changed_ = FALSE
  /\ finalSSA_ = Null
  /\ alg_pc = "idle"
  /\ alg_cur = Null
  /\ alg_repl = Null
  /\ alg_warn = 0
  /\ alg_pre = [operand_ |-> <<>>, changed_ |-> FALSE]
  /\ alg_ret = FALSE

\* The liveness pass after Reset(), with no function to analyse.
IdleLive ==
  /\ insts = <<>>
  /\ labels_ = <<>>
  /\ next_bid_ = 0
  /\ bbs_ = <<>>
  /\ order_ = <<>>
  /\ rpo = <<>>
  /\ live_changed = FALSE
  /\ live_intervals = <<>>
  /\ live_pc = "idle"

\* F applied to the value of v, with v evaluated a single time.
Once(v, F(_)) == CHOOSE r \in {F(x) : x \in {v}} : TRUE

\* The absent type (a null TypePtr).
NoType == [kind |-> "null"]

\* The outermost scope of a nested map.
GlobalEnv == <<[sid |-> 1, items |-> <<>>]>>

\* The analyzer after Reset(), before any AST is analysed.
IdleSema ==
  /\ symbols_ = GlobalEnv
  /\ aliases_ = GlobalEnv
  /\ structs_ = GlobalEnv
  /\ enums_ = GlobalEnv
  /\ in_func_ = FALSE
  /\ funcs_ = <<>>
  /\ cur_ret_ = NoType
  /\ last_struct_name_ = ""
  /\ struct_elems_ = <<>>
  /\ struct_elem_names_ = {}
  /\ struct_elem_base_ = NoType
  /\ struct_types = <<>>
  /\ sema_pc = "ready"
  /\ sema_calls = 0
  /\ sema_ast = [ast |-> "none"]
  /\ sema_pre = <<>>
  /\ sema_ret = NoType
  /\ sema_exits = {}

\* No block handed to the pass.
IdleBlock ==
  /\ block_insts = <<>>
  /\ block_orig = <<>>
  /\ block_pc = "idle"

---------------------------------------------------------------------------
(***************************************************************************)
(* Dead global value elimination                                           *)
(***************************************************************************)

\* Largest number of top-level values of a module.
MaxVals == 3

LinkageTypes == {"External", "Internal", "Inline", "GlobalCtor"}

\* The top-level values a module of n values may hold.  A function with a
\* body may reference (call, take the address of) at most one top-level value,
\* itself included; declarations and global variables reference none.
ValueSet(n) ==
  [kind : {"func"}, link : LinkageTypes, body : {TRUE},
   refs : {{}} \cup {{j} : j \in 1..n}]
  \cup [kind : {"func"}, link : LinkageTypes, body : {FALSE}, refs : {{}}]
  \cup [kind : {"gvar"}, link : LinkageTypes, body : {FALSE}, refs : {{}}]

\* uses() of every value: the operand slots that reference it, named by the
\* top-level value that owns the slot.
UsesOf(vs) ==
  [v \in DOMAIN vs |-> {u \in DOMAIN vs : v \in vs[u].refs}]

IsInternal(link) == link = "Internal" \/ link = "Inline"

\* RunOn(FunctionSSA &): the new value of remove_flag_.
RunOnFunction(ssa, usesEmpty, flag) ==
  IF usesEmpty
    THEN LET is_internal == IsInternal(ssa.link)
         IN  ~ssa.body \/ is_internal
    ELSE flag

\* RunOn(GlobalVarSSA &): the new value of remove_flag_.
RunOnGlobalVar(ssa, usesEmpty, flag) ==
  LET is_internal == IsInternal(ssa.link)
  IN  IF usesEmpty /\ is_internal THEN TRUE ELSE flag

\* (*it)->RunPass(*this): double dispatch on the kind of the value.
RunPass(ssa, usesEmpty, flag) ==
  IF ssa.kind = "func" THEN RunOnFunction(ssa, usesEmpty, flag)
  ELSE IF ssa.kind = "gvar" THEN RunOnGlobalVar(ssa, usesEmpty, flag)
  ELSE flag

\* global_vals.erase(it): the list without its element at position it.
EraseAt(list, it) ==
  [i \in 1..(Len(list) - 1) |-> IF i < it THEN list[i] ELSE list[i + 1]]

\* The iterator a list erase returns designates the element that followed the
\* erased one, which now sits at the erased position.
NextAfterEraseSkip(it) == it + 1
NextAfterErase(it) == it

\* Destroying a value detaches the use edges of its operand slots: the value
\* no longer appears among the uses of anything.
DetachUses(u, v) == [w \in DOMAIN u |-> u[w] \ {v}]

\* The loop of RunOnModule from iterator position it on.
RECURSIVE Traverse(_, _, _, _, _, _)
Traverse(vs, list, it, u, chg, log) ==
  IF it > Len(list)
    THEN [list |-> list, uses |-> u, changed |-> chg, log |-> log]
    ELSE LET v == list[it]
             remove_flag_ == RunPass(vs[v], u[v] = {}, FALSE)
             entry == [id |-> v, empty |-> (u[v] = {}), removed |-> remove_flag_]
         IN  IF remove_flag_
               THEN Traverse(vs, EraseAt(list, it), NextAfterErase(it),
                             DetachUses(u, v), TRUE, Append(log, entry))
               ELSE Traverse(vs, list, it + 1, u, chg, Append(log, entry))

InitDGE ==
  \E n \in 0..MaxVals :
    /\ IdleAlg
    /\ IdleLive
    /\ IdleSema
    /\ IdleBlock
    /\ vals \in [1..n -> ValueSet(n)]
    /\ global_vals = [i \in 1..n |-> i]
    /\ uses = UsesOf(vals)
    /\ changed = FALSE
    /\ dge_runs = 0
    /\ dge_prev = <<>>
    /\ dge_log = <<>>

\* bool RunOnModule(UserPtrList &global_vals)
RunOnModule ==
  /\ dge_runs < 2   \* a first run and the run immediately after it
  /\ LET r == Traverse(vals, global_vals, 1, uses, FALSE, <<>>)
     IN  /\ global_vals' = r.list
         /\ uses' = r.uses
         /\ changed' = r.changed
         /\ dge_log' = r.log
  /\ dge_prev' = global_vals
  /\ dge_runs' = dge_runs + 1
  /\ UNCHANGED <<vals, algVars, liveVars, semaVars, blockVars>>

NextDGE == RunOnModule

SpecDGE == InitDGE /\ [][NextDGE]_vars

\* The eliminability rule: a function without a body, or a function or global
\* variable with Internal or Inline linkage.
Eliminable(ssa) ==
  \/ ssa.kind = "func" /\ ~ssa.body
  \/ ssa.kind \in {"func", "gvar"} /\ ssa.link \in {"Internal", "Inline"}

\* Whether value v had empty uses when the last run examined it.
EmptyWhenExamined(v) ==
  \E i \in 1..Len(dge_log) : dge_log[i].id = v /\ dge_log[i].empty

SeqRange(s) == {s[i] : i \in 1..Len(s)}

\* C1: RunOnModule examines every value of the list exactly once, in list
\* order, and leaves the original list, in the same relative order, minus
\* exactly the values that had empty uses when examined and are eliminable;
\* a used value, and an unused External/GlobalCtor global variable or function
\* with a body, stays.
C1_ExaminedOnceAndFiltered ==
  dge_runs >= 1 =>
    /\ Len(dge_log) = Len(dge_prev)
    /\ \A i \in 1..Len(dge_prev) : dge_log[i].id = dge_prev[i]
    /\ global_vals =
         SelectSeq(dge_prev,
                   LAMBDA v : ~(EmptyWhenExamined(v) /\ Eliminable(vals[v])))
    /\ \A v \in SeqRange(dge_prev) :
         (~EmptyWhenExamined(v)
            \/ (vals[v].link \in {"External", "GlobalCtor"}
                  /\ (vals[v].kind = "gvar" \/ vals[v].body)))
         => v \in SeqRange(global_vals)

\* C1 witness: a first run on three values that erases the first two and
\* keeps the third.
C1_Witness ==
  /\ dge_runs = 1
  /\ Len(dge_log) = 3
  /\ dge_log[1].removed /\ dge_log[2].removed /\ ~dge_log[3].removed
  /\ global_vals = <<3>>

\* C2: a second run immediately after a first removes nothing, leaves the
\* list as the first run left it and returns changed = false; changed is true
\* only in a run that removed a value.
C2_Idempotent ==
  /\ dge_runs = 2 => (global_vals = dge_prev /\ changed = FALSE)
  /\ dge_runs >= 1 => (changed => Len(global_vals) < Len(dge_prev))

---------------------------------------------------------------------------
(***************************************************************************)
(* Algebraic simplification                                                *)
(***************************************************************************)

\* Largest number of constants operand_ may hold.
MaxOperands == 2

INT_MAX == 2147483647
INT_MIN == (-2147483647) - 1

\* SSA values: the function argument, integer constants, binary instructions.
ArgSSA == [k |-> "arg", v |-> 0]
ConstIntSSA(c) == [k |-> "const", v |-> c]
BinarySSA(op, l, r) == [k |-> "bin", op |-> op, l |-> l, r |-> r]

IsConst(ssa) == ssa.k = "const"

Operators ==
  {"Add", "Sub", "Mul", "SDiv", "UDiv", "SRem", "URem", "Shl", "LShr", "AShr"}

\* The constants of the instructions considered.
ConstInts == {0, 1, 3, 4, -4, INT_MIN}

\* Binary instructions used as an operand of another instruction.
InnerInsts ==
  {BinarySSA(op, ArgSSA, ConstIntSSA(1)) : op \in {"Mul", "Sub"}}
  \cup {BinarySSA("Add", ArgSSA, ArgSSA)}

OperandSet == {ArgSSA} \cup {ConstIntSSA(c) : c \in ConstInts} \cup InnerInsts

\* What a block's instruction list may hold: binary instructions and, once an
\* instruction was replaced in place, the argument or the constant 0.
BlockInsts ==
  {BinarySSA(op, l, r) : op \in Operators, l \in OperandSet, r \in OperandSet}
  \cup {ArgSSA, ConstIntSSA(0)}

\* The low 31 bits of a 32-bit two's-complement integer.
Low31(n) == IF n >= 0 THEN n ELSE (n + INT_MAX) + 1

RECURSIVE AndNat(_, _)
AndNat(a, b) ==
  IF a = 0 \/ b = 0 THEN 0
  ELSE (a % 2) * (b % 2) + 2 * AndNat(a \div 2, b \div 2)

\* a & b on 32-bit two's-complement integers.
BitAnd32(a, b) ==
  LET low == AndNat(Low31(a), Low31(b))
  IN  IF a < 0 /\ b < 0 THEN (low - INT_MAX) - 1 ELSE low

\* The outcomes of the undefined operations on the minimum integer: whether
\* (num & (num - 1)) == 0 is found to hold when num - 1 overflows, and the
\* integer the conversion of log2's NaN yields.
UndefinedOutcomes == [pow : BOOLEAN, log : {INT_MIN, 0}]

\* The outcomes to distinguish when visiting instruction it: they are read
\* only when the minimum integer is one of its operands.
OutcomesFor(it) ==
  IF it.k = "bin" /\ ConstIntSSA(INT_MIN) \in {it.l, it.r}
    THEN UndefinedOutcomes
    ELSE {[pow |-> TRUE, log |-> 0]}

\* Is2Power(int32_t num)
Is2Power(num, ub) ==
  IF num = INT_MIN THEN ub.pow ELSE BitAnd32(num, num - 1) = 0

RECURSIVE FloorLog2(_)
FloorLog2(n) == IF n <= 1 THEN 0 ELSE 1 + FloorLog2(n \div 2)

\* Log2(int32_t num): (int)log2(num)
Log2(num, ub) == IF num > 0 THEN FloorLog2(num) ELSE ub.log

\* Module::CreateShr on a signed 32-bit left operand: an arithmetic shift.
CreateShr(left, rhs) == BinarySSA("AShr", left, rhs)

\* RunOn(ConstIntSSA &)
RunOnConstInt(ssa, s) == [s EXCEPT !.operand_ = Append(@, ssa.v)]

\* finalSSA_ = v; changed_ = needFold_ = true; then the clear at the end.
Fold(s, v) ==
  [s EXCEPT !.finalSSA_ = v, !.changed_ = TRUE, !.needFold_ = TRUE,
            !.operand_ = <<>>]

\* operand_.clear()
Clear(s) == [s EXCEPT !.operand_ = <<>>]

\* left->IsConst() && operand_[0] == 1
LeftOneCase(ssa, s) ==
  IF ssa.op = "Mul" THEN Fold(s, ssa.r) ELSE s

\* left->IsConst() && operand_[0] == 0
LeftZeroCase(ssa, s) ==
  IF ssa.op = "Add" THEN Fold(s, ssa.r)
  ELSE IF ssa.op \in {"Mul", "SDiv", "UDiv"} THEN Fold(s, ssa.l)
  ELSE s

\* right->IsConst() && operand_[0] == 1
RightOneCase(ssa, s) ==
  IF ssa.op \in {"Mul", "UDiv", "SDiv"} THEN Fold(s, ssa.l) ELSE s

\* right->IsConst() && operand_[0] == 0: finalSSA_ is set, the flags are not.
RightZeroCase(ssa, s) ==
  IF ssa.op \in {"Add", "Sub", "Shl", "LShr", "AShr"}
    THEN Clear([s EXCEPT !.finalSSA_ = ssa.l])
  ELSE IF ssa.op = "Mul" THEN Clear([s EXCEPT !.finalSSA_ = ssa.r])
  ELSE IF ssa.op \in {"SDiv", "UDiv"} THEN [s EXCEPT !.warn = @ + 1]
  ELSE s

\* right->IsConst(), any other constant
PowerOfTwoCase(ssa, s, ub) ==
  IF ssa.op = "SDiv"
    THEN IF Is2Power(s.operand_[1], ub)
           THEN Fold(s, CreateShr(ssa.l, ConstIntSSA(Log2(s.operand_[1], ub))))
           ELSE s
    ELSE Clear(s)

\* The identity simplification of RunOn(BinarySSA &), after both operands
\* were visited.
Simplify(ssa, s, ub) ==
  IF Len(s.operand_) = 1
    THEN IF IsConst(ssa.l) /\ s.operand_[1] = 1 THEN LeftOneCase(ssa, s)
         ELSE IF IsConst(ssa.l) /\ s.operand_[1] = 0 THEN LeftZeroCase(ssa, s)
         ELSE IF IsConst(ssa.r) /\ s.operand_[1] = 1 THEN RightOneCase(ssa, s)
         ELSE IF IsConst(ssa.r) /\ s.operand_[1] = 0 THEN RightZeroCase(ssa, s)
         ELSE IF IsConst(ssa.r) THEN PowerOfTwoCase(ssa, s, ub)
         ELSE Clear(s)
    ELSE Clear(s)

\* ssa->RunPass(*this) and RunOn(BinarySSA &): the operands are visited
\* first, left then right.
RECURSIVE RunPassSSA(_, _, _)
RunPassSSA(ssa, s, ub) ==
  IF ssa.k = "const" THEN RunOnConstInt(ssa, s)
  ELSE IF ssa.k = "bin"
    THEN Simplify(ssa, RunPassSSA(ssa.r, RunPassSSA(ssa.l, s, ub), ub), ub)
  ELSE s

InitAlg == IdleAlg /\ IdleDGE /\ IdleLive /\ IdleSema /\ IdleBlock

\* RunOnBlock, entry: changed_ = needFold_ = false.
BeginBlock ==
  /\ alg_pc = "idle"
  /\ alg_pc' = "scan"
  /\ changed_' = FALSE
  /\ needFold_' = FALSE
  /\ alg_cur' = Null
  /\ alg_repl' = Null
  /\ alg_warn' = 0
  /\ alg_pre' = [operand_ |-> operand_, changed_ |-> FALSE]
  /\ UNCHANGED <<operand_, finalSSA_, alg_ret, dgeVars, liveVars, semaVars, blockVars>>

\* RunOnBlock, the body of one iteration of the loop over block->insts().
VisitInst ==
  /\ alg_pc = "scan"
  /\ alg_pc' = "visited"
  /\ \E it \in BlockInsts :
       \E ub \in OutcomesFor(it) :
         LET s0 == [operand_ |-> operand_, needFold_ |-> needFold_,
                    changed_ |-> changed_, finalSSA_ |-> finalSSA_, warn |-> 0]
             s == RunPassSSA(it, s0, ub)
         IN  /\ Len(s.operand_) <= MaxOperands
             /\ operand_' = s.operand_
             /\ changed_' = s.changed_
             /\ alg_warn' = s.warn
             /\ alg_cur' = it
             /\ IF s.needFold_
                  THEN \* it->ReplaceBy(finalSSA_); it = finalSSA_;
                       /\ alg_repl' = s.finalSSA_
                       /\ finalSSA_' = Null
                       /\ needFold_' = FALSE
                  ELSE /\ alg_repl' = Null
                       /\ finalSSA_' = s.finalSSA_
                       /\ needFold_' = FALSE
  /\ alg_pre' = [operand_ |-> operand_, changed_ |-> changed_]
  /\ UNCHANGED <<alg_ret, dgeVars, liveVars, semaVars, blockVars>>

\* RunOnBlock, the loop moves to the next instruction of the block.
NextInst ==
  /\ alg_pc = "visited"
  /\ alg_pc' = "scan"
  /\ alg_cur' = Null
  /\ alg_repl' = Null
  /\ alg_warn' = 0
  /\ alg_pre' = [operand_ |-> operand_, changed_ |-> changed_]
  /\ UNCHANGED <<operand_, needFold_, changed_, finalSSA_, alg_ret, dgeVars, liveVars, semaVars, blockVars>>

\* RunOnBlock, exit: return changed_.
EndBlock ==
  /\ alg_pc = "scan"
  /\ alg_pc' = "idle"
  /\ alg_ret' = changed_
  /\ UNCHANGED <<operand_, needFold_, changed_, finalSSA_, alg_cur, alg_repl,
                 alg_warn, alg_pre, dgeVars, liveVars, semaVars, blockVars>>

NextAlg == BeginBlock \/ VisitInst \/ NextInst \/ EndBlock

SpecAlg == InitAlg /\ [][NextAlg]_vars

\* The last loop iteration visited a binary instruction.
VisitedBinary == alg_pc = "visited" /\ alg_cur.k = "bin"

\* A value that is not a constant: the argument or an instruction's result.
NonConst(ssa) == ssa.k \in {"arg", "bin"}

\* C3: an instruction x * 1, 1 * x or x / 1 (signed or unsigned) with x not
\* a constant is replaced by x and changed is set, whatever was visited
\* before it.
C3_IdentityOne ==
  VisitedBinary =>
    /\ (/\ alg_cur.op \in {"Mul", "SDiv", "UDiv"}
        /\ alg_cur.r = ConstIntSSA(1)
        /\ NonConst(alg_cur.l))
       => (alg_repl = alg_cur.l /\ changed_)
    /\ (/\ alg_cur.op = "Mul"
        /\ alg_cur.l = ConstIntSSA(1)
        /\ NonConst(alg_cur.r))
       => (alg_repl = alg_cur.r /\ changed_)

\* C4: an instruction x + 0, 0 + x, x - 0, x << 0 or x >> 0 is replaced by x
\* and changed is set.
C4_IdentityZero ==
  VisitedBinary =>
    /\ (/\ alg_cur.op \in {"Add", "Sub", "Shl", "LShr", "AShr"}
        /\ alg_cur.r = ConstIntSSA(0)
        /\ NonConst(alg_cur.l))
       => (alg_repl = alg_cur.l /\ changed_)
    /\ (/\ alg_cur.op = "Add"
        /\ alg_cur.l = ConstIntSSA(0)
        /\ NonConst(alg_cur.r))
       => (alg_repl = alg_cur.r /\ changed_)

\* C5: an instruction x * 0 or 0 * x is replaced by the constant 0 and
\* changed is set.
C5_MulZero ==
  VisitedBinary =>
    ((/\ alg_cur.op = "Mul"
      /\ \/ alg_cur.r = ConstIntSSA(0) /\ NonConst(alg_cur.l)
         \/ alg_cur.l = ConstIntSSA(0) /\ NonConst(alg_cur.r))
     => (alg_repl = ConstIntSSA(0) /\ changed_))

\* c = 2^k for some k > 0.
RECURSIVE Pow2(_)
Pow2(k) == IF k = 0 THEN 1 ELSE 2 * Pow2(k - 1)
IsPositivePowerOfTwo(c) == \E k \in 1..30 : c = Pow2(k)

\* C6: a signed division x / 2^k, k > 0, is replaced by an arithmetic right
\* shift of x by exactly k and changed is set; a signed division by any other
\* constant is not replaced by a shift.
C6_PowerOfTwoDivision ==
  VisitedBinary =>
    ((/\ alg_cur.op = "SDiv"
      /\ IsConst(alg_cur.r)
      /\ NonConst(alg_cur.l))
     => IF IsPositivePowerOfTwo(alg_cur.r.v)
          THEN /\ alg_repl.k = "bin"
               /\ alg_repl.op = "AShr"
               /\ alg_repl.l = alg_cur.l
               /\ alg_repl.r.k = "const"
               /\ alg_repl.r.v \in 1..30
               /\ Pow2(alg_repl.r.v) = alg_cur.r.v
               /\ changed_
          ELSE ~(alg_repl.k = "bin" /\ alg_repl.op \in {"AShr", "LShr"}
                                    /\ alg_repl.l = alg_cur.l))

\* C7: a division or modulo by the constant 0 stays in the block, a warning
\* is logged, and the visit leaves the changed flag as it was.
C7_DivisionByZero ==
  VisitedBinary =>
    ((/\ alg_cur.op \in {"SDiv", "UDiv", "SRem", "URem"}
      /\ alg_cur.r = ConstIntSSA(0))
     => /\ alg_repl = Null
        /\ alg_warn >= 1
        /\ changed_ = alg_pre.changed_)

\* Values of the argument the rewrites are evaluated on.
ArgValues == (-4)..4

\* The value of an instruction: a number, a trap (division by zero), or not
\* evaluated (an operand outside the small range where 32-bit arithmetic
\* cannot wrap, or an unsigned operation on a negative number).
Val(n) == [st |-> "val", v |-> n]
Trap == [st |-> "trap", v |-> 0]
NotEvaluated == [st |-> "skip", v |-> 0]

Abs(n) == IF n < 0 THEN -n ELSE n

\* Truncating signed division and its remainder.
TruncDiv(a, b) ==
  IF (a < 0) = (b < 0) THEN Abs(a) \div Abs(b) ELSE -(Abs(a) \div Abs(b))

EvalOp(op, a, b) ==
  CASE op = "Add" -> Val(a + b)
    [] op = "Sub" -> Val(a - b)
    [] op = "Mul" -> Val(a * b)
    [] op = "SDiv" -> IF b = 0 THEN Trap ELSE Val(TruncDiv(a, b))
    [] op = "SRem" -> IF b = 0 THEN Trap ELSE Val(a - b * TruncDiv(a, b))
    [] op = "UDiv" -> IF b = 0 THEN Trap
                      ELSE IF a >= 0 /\ b > 0 THEN Val(a \div b)
                      ELSE NotEvaluated
    [] op = "URem" -> IF b = 0 THEN Trap
                      ELSE IF a >= 0 /\ b > 0 THEN Val(a % b)
                      ELSE NotEvaluated
    [] op = "Shl" -> IF b \in 0..4 THEN Val(a * Pow2(b)) ELSE NotEvaluated
    [] op = "AShr" -> IF b \in 0..4 THEN Val(a \div Pow2(b)) ELSE NotEvaluated
    [] op = "LShr" -> IF b = 0 THEN Val(a)
                      ELSE IF b \in 1..4 /\ a >= 0 THEN Val(a \div Pow2(b))
                      ELSE NotEvaluated

RECURSIVE Eval(_, _)
Eval(ssa, x) ==
  IF ssa.k = "arg" THEN Val(x)
  ELSE IF ssa.k = "const"
    THEN IF ssa.v \in (-4)..4 THEN Val(ssa.v) ELSE NotEvaluated
  ELSE LET a == Eval(ssa.l, x)
           b == Eval(ssa.r, x)
       IN  IF a.st = "trap" \/ b.st = "trap" THEN Trap
           ELSE IF a.st = "skip" \/ b.st = "skip" THEN NotEvaluated
           ELSE EvalOp(ssa.op, a.v, b.v)

\* C8: every rewrite preserves the value of the rewritten instruction for
\* every value of the argument.
C8_RewritePreservesValue ==
  (VisitedBinary /\ alg_repl # Null) =>
    \A x \in ArgValues :
      LET a == Eval(alg_cur, x)
          b == Eval(alg_repl, x)
      IN  a.st = "skip" \/ b.st = "skip" \/ a = b

---------------------------------------------------------------------------
(***************************************************************************)
(* Liveness analysis on MIR                                                *)
(***************************************************************************)

\* Largest number of instructions of a function.
MaxInsts == 6

Labels == {"L1"}
VirtualRegs == {"v"}

\* Operands: virtual registers and labels.
VReg(r) == [kind |-> "vreg", id |-> r]
LabelOpr(l) == [kind |-> "label", id |-> l]
IsVirtual(opr) == opr.kind = "vreg"

\* Instructions: opcode, operand list, destination (NoDest when none).
NoDest == [kind |-> "none", id |-> ""]
Inst(opcode, oprs, dest) == [opcode |-> opcode, oprs |-> oprs, dest |-> dest]

\* The instructions of the functions analysed: labels, the unconditional and
\* the BEQ branch to a label, the return, a definition and a use of a
\* virtual register.
InstSet ==
  {Inst(op, <<LabelOpr(l)>>, NoDest) : op \in {"LABEL", "B", "BEQ"}, l \in Labels}
  \cup {Inst("BX", <<>>, NoDest)}
  \cup {Inst("MOV", <<>>, VReg(r)) : r \in VirtualRegs}
  \cup {Inst("CMP", <<VReg(r)>>, NoDest) : r \in VirtualRegs}

\* An instruction list the selector can emit for a function: every label is
\* defined at most once, every branch goes to a label of the function, only a
\* label follows an unconditional branch or a return, and the function ends
\* with a return.
WellFormed(is) ==
  /\ \A i, j \in DOMAIN is :
       (is[i].opcode = "LABEL" /\ is[j].opcode = "LABEL"
          /\ is[i].oprs = is[j].oprs) => i = j
  /\ \A i \in DOMAIN is :
       is[i].opcode \in {"B", "BEQ"} =>
         \E j \in DOMAIN is : is[j].opcode = "LABEL" /\ is[j].oprs = is[i].oprs
  /\ \A i \in DOMAIN is :
       (is[i].opcode \in {"B", "BX"} /\ i < Len(is)) => is[i + 1].opcode = "LABEL"
  /\ is[Len(is)].opcode = "BX"

\* struct BasicBlock
EmptyBlock ==
  [insts |-> <<>>, preds |-> <<>>, succs |-> <<>>,
   var_kill |-> {}, ue_var |-> {}, live_out |-> {}]

\* bbs_[id]: the map's operator[] creates the block when it is absent.
Touch(bbs, id) == IF id \in DOMAIN bbs THEN bbs ELSE bbs @@ (id :> EmptyBlock)

\* BlockId GetBlockId(const OperandBase *label)
GetBlockId(st, label) ==
  IF label \in DOMAIN st.labels_
    THEN [st EXCEPT !.bid = st.labels_[label]]
    ELSE [st EXCEPT !.bid = st.next_bid_ + 1,
                    !.next_bid_ = st.next_bid_ + 1,
                    !.labels_ = st.labels_ @@ (label :> (st.next_bid_ + 1))]

\* BlockId GetBlockId(): the id of an anonymous block.
GetAnonBlockId(st) ==
  [st EXCEPT !.bid = st.next_bid_ + 1, !.next_bid_ = st.next_bid_ + 1]

\* The opcode of GetNextInst / GetPrevInst, "null" for nullptr.
GetNextInst(is, it) == IF it + 1 > Len(is) THEN "null" ELSE is[it + 1].opcode
GetPrevInst(is, it) == IF it = 1 THEN "null" ELSE is[it - 1].opcode

\* succs of from gains to, preds of to gains from.
AddEdge(bbs, from, to) ==
  LET b1 == Touch(bbs, from)
      b2 == [b1 EXCEPT ![from].succs = Append(@, to)]
      b3 == Touch(b2, to)
  IN  [b3 EXCEPT ![to].preds = Append(@, from)]

\* BuildCFG, the LABEL branch of the loop body.
OnLabel(is, it, st) ==
  LET s1 == GetBlockId(st, is[it].oprs[1].id)
      next_bid == s1.bid
      pi == GetPrevInst(is, it)
      s2 == IF pi = "null" \/ (pi # "B" /\ pi # "BX" /\ pi # "POP")
              THEN [s1 EXCEPT !.bbs_ = AddEdge(s1.bbs_, s1.cur_bid, next_bid)]
              ELSE s1
  IN  [s2 EXCEPT !.cur_bid = next_bid, !.order_ = Append(@, next_bid)]

\* BuildCFG, the BEQ branch: the taken edge, then the split unless the next
\* instruction is B or LABEL.  At the end of the list GetNextInst returns
\* nullptr and its opcode is read through it: nextop is then the outcome of
\* that undefined read.
OnBEQ(is, it, st, nextop) ==
  LET s1 == GetBlockId(st, is[it].oprs[1].id)
      s2 == [s1 EXCEPT !.bbs_ = AddEdge(s1.bbs_, s1.cur_bid, s1.bid)]
  IN  IF nextop = "crash" THEN [s2 EXCEPT !.crashed = TRUE]
      ELSE IF nextop # "B" /\ nextop # "LABEL"
        THEN LET s3 == GetAnonBlockId(s2)
             IN  [s3 EXCEPT !.bbs_ = AddEdge(s3.bbs_, s3.cur_bid, s3.bid),
                            !.cur_bid = s3.bid,
                            !.order_ = Append(@, s3.bid)]
        ELSE s2

\* BuildCFG, the B branch.
OnB(is, it, st) ==
  LET s1 == GetBlockId(st, is[it].oprs[1].id)
  IN  [s1 EXCEPT !.bbs_ = AddEdge(s1.bbs_, s1.cur_bid, s1.bid)]

\* BuildCFG, the loop from instruction it on.
RECURSIVE BuildFrom(_, _, _, _)
BuildFrom(is, it, st, ub) ==
  IF it > Len(is) \/ st.crashed THEN st
  ELSE IF is[it].opcode = "LABEL" THEN BuildFrom(is, it + 1, OnLabel(is, it, st), ub)
  ELSE LET b1 == Touch(st.bbs_, st.cur_bid)
           s1 == [st EXCEPT !.bbs_ = [b1 EXCEPT ![st.cur_bid].insts = Append(@, is[it])]]
           nx == GetNextInst(is, it)
           s2 == IF is[it].opcode = "BEQ"
                   THEN OnBEQ(is, it, s1, IF nx = "null" THEN ub ELSE nx)
                 ELSE IF is[it].opcode = "B" THEN OnB(is, it, s1)
                 ELSE s1
       IN  BuildFrom(is, it + 1, s2, ub)

\* What dereferencing the null GetNextInst result may yield: the process
\* dies, or some opcode is read.
NullOpcodeOutcomes == {"crash", "B", "MOV"}

\* InitDefUseInfo with the two steps of the loop body swapped: the
\* destination is recorded before the operands are looked at.
RECURSIVE DefUseKillFirst(_, _, _)
DefUseKillFirst(bb, i, is) ==
  IF i > Len(is) THEN bb
  ELSE LET used == {is[i].oprs[k] : k \in DOMAIN is[i].oprs}
           kill == IF is[i].dest # NoDest /\ IsVirtual(is[i].dest)
                     THEN bb.var_kill \cup {is[i].dest}
                     ELSE bb.var_kill
           ue == bb.ue_var \cup {v \in used : IsVirtual(v) /\ v \notin kill}
       IN  DefUseKillFirst([bb EXCEPT !.ue_var = ue, !.var_kill = kill],
                           i + 1, is)

\* InitDefUseInfo, for the instructions of one block from position i on.
RECURSIVE DefUse(_, _, _)
DefUse(bb, i, is) ==
  IF i > Len(is) THEN bb
  ELSE LET used == {is[i].oprs[k] : k \in DOMAIN is[i].oprs}
           ue == bb.ue_var \cup {v \in used : IsVirtual(v) /\ v \notin bb.var_kill}
           kill == IF is[i].dest # NoDest /\ IsVirtual(is[i].dest)
                     THEN bb.var_kill \cup {is[i].dest}
                     ELSE bb.var_kill
       IN  DefUse([bb EXCEPT !.ue_var = ue, !.var_kill = kill], i + 1, is)

\* The blocks without successors: what the search of GetReversePostOrder
\* can stop at, depending on the iteration order of the hash map.
ExitBlocks(bbs) == {id \in DOMAIN bbs : bbs[id].succs = <<>>}

\* TraverseRPO on the reverse CFG: [rpo, visited] after visiting cur; the
\* predecessors still to visit are preds[i..].
RECURSIVE TraverseRPO(_, _, _)
RECURSIVE TraversePreds(_, _, _, _)
TraversePreds(bbs, preds, i, acc) ==
  IF i > Len(preds) THEN acc
  ELSE TraversePreds(bbs, preds, i + 1, TraverseRPO(bbs, preds[i], acc))
TraverseRPO(bbs, cur, acc) ==
  IF cur \in acc.visited THEN acc
  ELSE LET a1 == [acc EXCEPT !.visited = @ \cup {cur}]
           preds == IF cur \in DOMAIN bbs THEN bbs[cur].preds ELSE <<>>
           a2 == TraversePreds(bbs, preds, 1, a1)
       IN  [a2 EXCEPT !.rpo = <<cur>> \o @]

\* The transfer of one successor into live_out of a block.
FromSucc(succ) == succ.ue_var \cup (succ.live_out \ succ.var_kill)

\* The sweep over the successors of a block with changed set at every
\* insertion, whether or not the register was in live_out already.
RECURSIVE SweepSuccsAlwaysChanged(_, _, _, _)
SweepSuccsAlwaysChanged(bbs, bid, i, chg) ==
  IF i > Len(bbs[bid].succs) THEN [bbs |-> bbs, changed |-> chg]
  ELSE LET Insert(b1) ==
             LET add == FromSucc(b1[bbs[bid].succs[i]])
                 new == b1[bid].live_out \cup add
             IN  SweepSuccsAlwaysChanged([b1 EXCEPT ![bid].live_out = new],
                                         bid, i + 1, chg \/ add # {})
       IN  Once(Touch(bbs, bbs[bid].succs[i]), Insert)

\* The body of the while loop of RunLivenessAnalysis: one sweep over rpo,
\* each block reading the live_out sets as updated so far.
RECURSIVE SweepSuccs(_, _, _, _)
SweepSuccs(bbs, bid, i, chg) ==
  IF i > Len(bbs[bid].succs) THEN [bbs |-> bbs, changed |-> chg]
  ELSE LET Insert(b1) ==
             LET add == FromSucc(b1[bbs[bid].succs[i]])
                 new == b1[bid].live_out \cup add
             IN  SweepSuccs([b1 EXCEPT ![bid].live_out = new], bid, i + 1,
                            chg \/ new # b1[bid].live_out)
       IN  Once(Touch(bbs, bbs[bid].succs[i]), Insert)

RECURSIVE Sweep(_, _, _, _)
Sweep(bbs, order, i, chg) ==
  IF i > Len(order) THEN [bbs |-> bbs, changed |-> chg]
  ELSE LET Rest(r) == Sweep(r.bbs, order, i + 1, r.changed)
       IN  Once(SweepSuccs(Touch(bbs, order[i]), order[i], 1, chg), Rest)

\* LogLiveInterval without the update of an interval that exists already.
LogLiveIntervalOnce(lis, vreg, pos) ==
  IF vreg \in DOMAIN lis
    THEN lis
    ELSE lis @@ (vreg :> [start_pos |-> pos, end_pos |-> pos])

\* LogLiveInterval
LogLiveInterval(lis, vreg, pos) ==
  IF vreg \in DOMAIN lis
    THEN [lis EXCEPT ![vreg].end_pos = pos]
    ELSE lis @@ (vreg :> [start_pos |-> pos, end_pos |-> pos])

RECURSIVE LogAll(_, _, _)
LogAll(lis, vregs, pos) ==
  IF vregs = {} THEN lis
  ELSE LET v == CHOOSE x \in vregs : TRUE
       IN  LogAll(LogLiveInterval(lis, v, pos), vregs \ {v}, pos)

\* GenerateLiveIntervals, the loop over order_ from index i on; the position
\* of the block at index i is i - 1.
RECURSIVE Intervals(_, _, _, _)
Intervals(bbs, order, i, lis) ==
  IF i > Len(order) THEN lis
  ELSE LET bb == Touch(bbs, order[i])[order[i]]
           l1 == LogAll(lis, bb.var_kill, i - 1)
           l2 == LogAll(l1, bb.ue_var, i - 1)
           l3 == LogAll(l2, bb.live_out, i - 1)
       IN  Intervals(bbs, order, i + 1, l3)

InitLive ==
  /\ IdleDGE
  /\ IdleAlg
  /\ IdleSema
  /\ IdleBlock
  /\ \E n \in 1..MaxInsts :
       insts \in {is \in [1..n -> InstSet] : WellFormed(is)}
  /\ labels_ = <<>>
  /\ next_bid_ = 0
  /\ bbs_ = <<>>
  /\ order_ = <<>>
  /\ rpo = <<>>
  /\ live_changed = FALSE
  /\ live_intervals = <<>>
  /\ live_pc = "start"

\* BuildCFG(insts)
BuildCFG ==
  /\ live_pc = "start"
  /\ \E ub \in NullOpcodeOutcomes :
       LET st == BuildFrom(insts, 1,
                           [labels_ |-> labels_, next_bid_ |-> next_bid_,
                            bbs_ |-> bbs_, order_ |-> <<0>>, cur_bid |-> 0,
                            bid |-> 0, crashed |-> FALSE], ub)
       IN  /\ labels_' = st.labels_
           /\ next_bid_' = st.next_bid_
           /\ bbs_' = st.bbs_
           /\ order_' = st.order_
           /\ live_pc' = IF st.crashed THEN "crashed" ELSE "built"
  /\ UNCHANGED <<insts, rpo, live_changed, live_intervals, dgeVars, algVars, semaVars, blockVars>>

\* InitDefUseInfo()
InitDefUseInfo ==
  /\ live_pc = "built"
  /\ bbs_' = [id \in DOMAIN bbs_ |-> DefUse(bbs_[id], 1, bbs_[id].insts)]
  /\ live_pc' = "defuse"
  /\ UNCHANGED <<insts, labels_, next_bid_, order_, rpo, live_changed,
                 live_intervals, dgeVars, algVars, semaVars, blockVars>>

\* GetReversePostOrder(): the first block without successors the hash map's
\* iteration meets is the root; when there is none, entry is read
\* uninitialized and may be any block id, also one that is no block yet.
GetReversePostOrder ==
  /\ live_pc = "defuse"
  /\ \E entry \in IF ExitBlocks(bbs_) # {} THEN ExitBlocks(bbs_)
                  ELSE DOMAIN bbs_ \cup {next_bid_ + 1} :
       /\ rpo' = TraverseRPO(bbs_, entry, [rpo |-> <<>>, visited |-> {}]).rpo
       /\ bbs_' = Touch(bbs_, entry)
  /\ live_changed' = TRUE
  /\ live_pc' = "rpo"
  /\ UNCHANGED <<insts, labels_, next_bid_, order_, live_intervals,
                 dgeVars, algVars, semaVars, blockVars>>

\* RunLivenessAnalysis, one iteration of while (changed).
LivenessRound ==
  /\ live_pc = "rpo"
  /\ live_changed
  /\ LET r == Sweep(bbs_, rpo, 1, FALSE)
     IN  /\ bbs_' = r.bbs
         /\ live_changed' = r.changed
  /\ UNCHANGED <<insts, labels_, next_bid_, order_, rpo, live_intervals,
                 live_pc, dgeVars, algVars, semaVars, blockVars>>

\* GenerateLiveIntervals(func_label), once the while loop has ended.
GenerateLiveIntervals ==
  /\ live_pc = "rpo"
  /\ ~live_changed
  /\ live_intervals' = Intervals(bbs_, order_, 1, <<>>)
  /\ bbs_' = [id \in DOMAIN bbs_ \cup {order_[i] : i \in DOMAIN order_} |->
                Touch(bbs_, id)[id]]
  /\ live_pc' = "done"
  /\ UNCHANGED <<insts, labels_, next_bid_, order_, rpo, live_changed,
                 dgeVars, algVars, semaVars, blockVars>>

NextLive ==
  \/ BuildCFG
  \/ InitDefUseInfo
  \/ GetReversePostOrder
  \/ LivenessRound
  \/ GenerateLiveIntervals

SpecLive == InitLive /\ [][NextLive]_vars

\* RunLivenessAnalysis() as a whole: sweeps until one changes nothing.
RECURSIVE RunLivenessAnalysis(_, _)
RunLivenessAnalysis(bbs, order) ==
  LET r == Sweep(bbs, order, 1, FALSE)
  IN  IF r.changed THEN RunLivenessAnalysis(r.bbs, order) ELSE r.bbs

\* The exact liveness equations: the least live_out with
\* live_out(B) = union over the successors S of B of
\* ue_var(S) \cup (live_out(S) \ var_kill(S)), over all blocks.
RECURSIVE LeastLiveOut(_, _)
LeastLiveOut(bbs, lo) ==
  LET next == [b \in DOMAIN bbs |->
                 UNION {bbs[bbs[b].succs[i]].ue_var
                          \cup (lo[bbs[b].succs[i]] \ bbs[bbs[b].succs[i]].var_kill)
                        : i \in DOMAIN bbs[b].succs}]
  IN  IF next = lo THEN lo ELSE LeastLiveOut(bbs, next)

ExactLiveOut == LeastLiveOut(bbs_, [b \in DOMAIN bbs_ |-> {}])

\* C9: after RunOn, for every virtual register v and every block B in which
\* v is live under the exact equations (defined or used in B, or live on
\* exit from B), the position of B lies within v's interval.
C9_IntervalCoversLiveBlocks ==
  live_pc = "done" =>
    \A i \in DOMAIN order_ : \A r \in VirtualRegs :
      LET B == order_[i]
          v == VReg(r)
      IN  (v \in bbs_[B].var_kill \cup bbs_[B].ue_var \cup ExactLiveOut[B])
          => /\ v \in DOMAIN live_intervals
             /\ live_intervals[v].start_pos <= i - 1
             /\ i - 1 <= live_intervals[v].end_pos

\* The blocks as InitDefUseInfo left them: the blocks BuildCFG created, with
\* empty live_out sets.
AfterDefUse ==
  LET made == {id \in DOMAIN bbs_ :
                 bbs_[id].insts # <<>> \/ bbs_[id].preds # <<>>
                   \/ bbs_[id].succs # <<>>}
  IN  [id \in made |-> [bbs_[id] EXCEPT !.live_out = {}]]

\* The live_out sets RunLivenessAnalysis computes from root block entry.
LiveOutFrom(entry) ==
  RunLivenessAnalysis(Touch(AfterDefUse, entry),
      TraverseRPO(AfterDefUse, entry, [rpo |-> <<>>, visited |-> {}]).rpo)

\* C10: the live_out sets and the live intervals are the same whichever
\* successor-less block GetReversePostOrder picks as the root.
C10_RootIndependent ==
  live_pc = "done" =>
    \A entry \in ExitBlocks(AfterDefUse) :
      /\ \A id \in DOMAIN AfterDefUse :
           LiveOutFrom(entry)[id].live_out = bbs_[id].live_out
      /\ Intervals(LiveOutFrom(entry), order_, 1, <<>>) = live_intervals

---------------------------------------------------------------------------
(***************************************************************************)
(* Semantic analyzer: scopes, type aliases, struct definitions             *)
(***************************************************************************)

\* Upper bound on the number of top-level ASTs analysed in one run.
MaxDecls == 2

\* Identifiers of types, and of functions, parameters and variables.
TypeIds == {"A", "B"}
SymIds == {"f", "p"}

\* ---- xstl::NestedMap and xstl::Guard ----

\* The largest element of a non-empty set of integers.
MaxOf(S) == CHOOSE x \in S : \A y \in S : y <= x

\* xstl::MakeNestedMap(outer): a new, empty scope whose outer scope is the
\* current one.
MakeNestedMap(tab) ==
  Append(tab, [sid |-> MaxOf({tab[i].sid : i \in DOMAIN tab}) + 1,
               items |-> <<>>])

\* NestedMap::outer().
Outer(tab) == SubSeq(tab, 1, Len(tab) - 1)

\* NestedMap::GetItem(id, recursive): the item of the innermost scope that
\* has id, looking at the current scope only when recursive is false.
GetItem(tab, id, recursive) ==
  LET hits == {i \in DOMAIN tab :
                 /\ id \in DOMAIN tab[i].items
                 /\ (recursive \/ i = Len(tab))}
  IN  IF hits = {} THEN NoType ELSE tab[MaxOf(hits)].items[id]

\* NestedMap::AddItem(id, type) on the current scope.
AddItem(tab, id, type) ==
  [tab EXCEPT ![Len(tab)].items = (id :> type) @@ @]

\* ---- types ----

Void == [kind |-> "void"]
Int32 == [kind |-> "int32"]
MakePointer(base) == [kind |-> "pointer", base |-> base]
ArrayType(base, len) == [kind |-> "array", base |-> base, len |-> len]
FuncType(params, ret) == [kind |-> "func", params |-> params, ret |-> ret]
\* A struct type is a reference to its StructType object.
StructRef(obj) == [kind |-> "struct", obj |-> obj]

\* static Analyzer::enum_base_.
enum_base_ == Int32

IsStruct(type) == type.kind = "struct"
GetTypeId(st, type) == st.struct_types[type.obj].id

\* ---- the ASTs analysed ----

PrimTypeAST == [ast |-> "PrimType"]
UserTypeAST(id) == [ast |-> "UserType", id |-> id]
StructTypeAST(id) == [ast |-> "StructType", id |-> id]
EnumTypeAST(id) == [ast |-> "EnumType", id |-> id]
PointerTypeAST(base) == [ast |-> "PointerType", base |-> base]

NamedTypeASTs ==
  {UserTypeAST(id) : id \in TypeIds} \cup {StructTypeAST(id) : id \in TypeIds}
    \cup {EnumTypeAST(id) : id \in TypeIds}

TypeASTs ==
  {PrimTypeAST} \cup NamedTypeASTs
    \cup {PointerTypeAST(StructTypeAST(id)) : id \in TypeIds}

TypeAliasAST(id, type) == [ast |-> "TypeAlias", id |-> id, type |-> type]
StructElemDefAST(id, arr_lens) ==
  [ast |-> "StructElemDef", id |-> id, arr_lens |-> arr_lens]
StructElemAST(type, defs) == [ast |-> "StructElem", type |-> type, defs |-> defs]
StructDefAST(id, elems) == [ast |-> "StructDef", id |-> id, elems |-> elems]
EnumDefAST(id) == [ast |-> "EnumDef", id |-> id, elems |-> <<>>]
IdAST(id) == [ast |-> "Id", id |-> id]
BlockAST(stmts) == [ast |-> "Block", stmts |-> stmts]
FuncParamAST(type, id) ==
  [ast |-> "FuncParam", type |-> type, id |-> id, arr_lens |-> <<>>]
FuncDeclAST(type, id, params) ==
  [ast |-> "FuncDecl", type |-> type, id |-> id, params |-> params]
FuncDefAST(header, body) == [ast |-> "FuncDef", header |-> header, body |-> body]

\* Struct elements: one field x of any type, or an array of a struct type.
StructElems ==
  {StructElemAST(t, <<StructElemDefAST("x", <<>>)>>) : t \in TypeASTs}
    \cup {StructElemAST(StructTypeAST(id), <<StructElemDefAST("x", <<2>>)>>)
            : id \in TypeIds}

\* Struct definitions with no field or one field.
StructDefs ==
  {StructDefAST(id, <<>>) : id \in TypeIds}
    \cup {StructDefAST(id, <<e>>) : id \in TypeIds, e \in StructElems}

\* Aliases of int, of another named type, or of a pointer to a struct.
TypeAliases == {TypeAliasAST(id, t) : id \in TypeIds, t \in TypeASTs}

\* The declarations a block of the model holds: aliases of int, structs with
\* no field or one struct field by value.
InnerDecls ==
  {TypeAliasAST(id, PrimTypeAST) : id \in TypeIds}
    \cup {StructDefAST(id, <<>>) : id \in TypeIds}
    \cup {StructDefAST(id, <<StructElemAST(StructTypeAST(t),
                                <<StructElemDefAST("x", <<>>)>>)>>)
            : id \in TypeIds, t \in TypeIds}

\* Statements of a block: a declaration, or a reference to a symbol (which
\* fails when the symbol is undefined).
InnerStmts == InnerDecls \cup {IdAST(id) : id \in SymIds}

\* Blocks of one statement, and blocks nesting one of these after or before
\* a statement.
LeafBlocks ==
  {BlockAST(<<>>)} \cup {BlockAST(<<s>>) : s \in InnerStmts}
Blocks ==
  LeafBlocks
    \cup {BlockAST(<<b>>) : b \in LeafBlocks}
    \cup {BlockAST(<<s, b>>) : s \in InnerDecls, b \in LeafBlocks}
    \cup {BlockAST(<<b, s>>) : b \in LeafBlocks, s \in InnerStmts}

\* Function headers: return type int or an undefined user type; no
\* parameter, one, two of the same name, or one of a struct type.
NoParams == FuncDeclAST(PrimTypeAST, "f", <<>>)
OneParam == FuncDeclAST(PrimTypeAST, "f", <<FuncParamAST(PrimTypeAST, "p")>>)
FuncDecls ==
  {NoParams, OneParam,
   FuncDeclAST(UserTypeAST("A"), "f", <<>>),
   FuncDeclAST(PrimTypeAST, "f", <<FuncParamAST(PrimTypeAST, "p"),
                                   FuncParamAST(PrimTypeAST, "p")>>),
   FuncDeclAST(PrimTypeAST, "f", <<FuncParamAST(StructTypeAST("A"), "p")>>)}

\* Function definitions: any body under the header without parameters, the
\* one-statement bodies under the other headers.
FuncDefs ==
  {FuncDefAST(NoParams, b) : b \in Blocks}
    \cup {FuncDefAST(h, b) : h \in FuncDecls, b \in LeafBlocks}

\* The top-level ASTs of a translation unit.
TopASTs == TypeAliases \cup StructDefs \cup {EnumDefAST(id) : id \in TypeIds}
             \cup FuncDefs

\* ---- the analyzer ----

\* The analyzer's members as one record, with the type the handler returned
\* (ret) and the log of returns (exits).
SemaState ==
  [symbols_ |-> symbols_, aliases_ |-> aliases_, structs_ |-> structs_,
   enums_ |-> enums_, in_func_ |-> in_func_, funcs_ |-> funcs_,
   cur_ret_ |-> cur_ret_, last_struct_name_ |-> last_struct_name_,
   struct_elems_ |-> struct_elems_, struct_elem_names_ |-> struct_elem_names_,
   struct_elem_base_ |-> struct_elem_base_, struct_types |-> struct_types,
   ret |-> NoType, exits |-> {}]

\* return LogError(...) / return nullptr, and return ast.set_ast_type(type).
Err(st) == [st EXCEPT !.ret = NoType]
Ok(st, type) == [st EXCEPT !.ret = type]

\* The current scopes of the four tables, outermost first.
ScopeIds(st) ==
  [t \in {"symbols", "aliases", "structs", "enums"} |->
     LET tab == CASE t = "symbols" -> st.symbols_
                  [] t = "aliases" -> st.aliases_
                  [] t = "structs" -> st.structs_
                  [] OTHER -> st.enums_
     IN  [i \in DOMAIN tab |-> tab[i].sid]]

\* Analyzer::NewEnv(): a new scope on each of the four tables.
NewEnv(st) ==
  [st EXCEPT !.symbols_ = MakeNestedMap(@), !.aliases_ = MakeNestedMap(@),
             !.structs_ = MakeNestedMap(@), !.enums_ = MakeNestedMap(@)]

\* The guard returned by NewEnv() leaving one exit path out: it runs only
\* when the handler returns a type.
ReleaseOnSuccess(st) ==
  IF st.ret = NoType THEN st
  ELSE [st EXCEPT !.symbols_ = Outer(@), !.aliases_ = Outer(@),
                  !.structs_ = Outer(@), !.enums_ = Outer(@)]

\* The guard returned by NewEnv(): its destructor runs when the handler
\* returns, on every path, and makes the outer scopes current again.
Release(st) ==
  [st EXCEPT !.symbols_ = Outer(@), !.aliases_ = Outer(@),
             !.structs_ = Outer(@), !.enums_ = Outer(@)]

\* Analyzer::HandleArray for array lengths given as integer literals, from
\* the last dimension to the first.
RECURSIVE HandleArrayFrom(_, _, _, _)
HandleArrayFrom(base, arr_lens, i, is_param) ==
  IF i = 0 THEN base
  ELSE IF is_param /\ i = 1
         THEN HandleArrayFrom(MakePointer(base), arr_lens, i - 1, is_param)
       ELSE IF arr_lens[i] = 0 THEN NoType
       ELSE HandleArrayFrom(ArrayType(base, arr_lens[i]), arr_lens, i - 1,
                            is_param)

HandleArray(base, arr_lens, is_param) ==
  HandleArrayFrom(base, arr_lens, Len(arr_lens), is_param)

\* AnalyzeOn(PrimTypeAST / UserTypeAST / StructTypeAST / EnumTypeAST /
\* PointerTypeAST): the type a type AST denotes, NoType when undefined.
RECURSIVE AnalyzeOnType(_, _)
AnalyzeOnType(ast, st) ==
  CASE ast.ast = "PrimType" -> Int32
    [] ast.ast = "UserType" -> GetItem(st.aliases_, ast.id, TRUE)
    [] ast.ast = "StructType" -> GetItem(st.structs_, ast.id, TRUE)
    [] ast.ast = "EnumType" -> GetItem(st.enums_, ast.id, TRUE)
    [] ast.ast = "PointerType" ->
         LET type == AnalyzeOnType(ast.base, st)
         IN  IF type = NoType THEN NoType ELSE MakePointer(type)

\* AnalyzeOn(TypeAliasAST &).
AnalyzeOnTypeAlias(ast, st) ==
  LET type == AnalyzeOnType(ast.type, st)
  IN  IF type = NoType THEN Err(st)
      ELSE IF GetItem(st.aliases_, ast.id, FALSE) # NoType THEN Err(st)
      ELSE Ok([st EXCEPT !.enums_ = AddItem(@, ast.id, type)], Void)

\* AnalyzeOn(EnumDefAST &), for an enumeration without enumerators.
AnalyzeOnEnumDef(ast, st) ==
  IF GetItem(st.enums_, ast.id, FALSE) # NoType THEN Err(st)
  ELSE Ok([st EXCEPT !.enums_ = AddItem(@, ast.id, enum_base_)], Void)

\* AnalyzeOn(IdAST &).
AnalyzeOnId(ast, st) ==
  LET type == GetItem(st.symbols_, ast.id, TRUE)
  IN  IF type = NoType THEN Err(st) ELSE Ok(st, type)

\* AnalyzeOn(StructElemDefAST &).
AnalyzeOnStructElemDef(ast, st) ==
  IF ast.id \in st.struct_elem_names_ THEN Err(st)
  ELSE LET s1 == [st EXCEPT !.struct_elem_names_ = @ \cup {ast.id}]
           type == HandleArray(s1.struct_elem_base_, ast.arr_lens, FALSE)
       IN  IF type = NoType THEN Err(s1)
           ELSE Ok([s1 EXCEPT !.struct_elems_ =
                                 Append(@, [name |-> ast.id, type |-> type])],
                   type)

RECURSIVE AnalyzeElemDefs(_, _, _)
AnalyzeElemDefs(defs, i, st) ==
  IF i > Len(defs) THEN Ok(st, Void)
  ELSE LET r == AnalyzeOnStructElemDef(defs[i], st)
       IN  IF r.ret = NoType THEN r ELSE AnalyzeElemDefs(defs, i + 1, r)

\* The recursion test of AnalyzeOn(StructElemAST &) without its comparison.
IsRecursiveTypeNever(st, base) == FALSE

\* The recursion test of AnalyzeOn(StructElemAST &): the element's base type
\* is a struct of the name of the struct being defined.
IsRecursiveType(st, base) ==
  IsStruct(base) /\ GetTypeId(st, base) = st.last_struct_name_

\* AnalyzeOn(StructElemAST &).
AnalyzeOnStructElem(ast, st) ==
  LET base == AnalyzeOnType(ast.type, st)
  IN  IF base = NoType THEN Err(st)
      ELSE IF IsRecursiveType(st, base) THEN Err(st)
      ELSE AnalyzeElemDefs(ast.defs, 1, [st EXCEPT !.struct_elem_base_ = base])

RECURSIVE AnalyzeElems(_, _, _)
AnalyzeElems(elems, i, st) ==
  IF i > Len(elems) THEN Ok(st, Void)
  ELSE LET r == AnalyzeOnStructElem(elems[i], st)
       IN  IF r.ret = NoType THEN r ELSE AnalyzeElems(elems, i + 1, r)

\* AnalyzeOn(StructDefAST &): the StructType object is created empty,
\* registered, and given its fields once all of them are analysed.
AnalyzeOnStructDef(ast, st) ==
  LET s1 == [st EXCEPT !.last_struct_name_ = ast.id, !.struct_elems_ = <<>>,
                       !.struct_elem_names_ = {}]
      obj == Len(st.struct_types) + 1
  IN  IF GetItem(s1.structs_, ast.id, FALSE) # NoType THEN Err(s1)
      ELSE LET s2 == [s1 EXCEPT
                        !.struct_types = Append(@, [id |-> ast.id,
                                                    elems |-> <<>>]),
                        !.structs_ = AddItem(@, ast.id, StructRef(obj))]
               s3 == AnalyzeElems(ast.elems, 1, s2)
           IN  IF s3.ret = NoType THEN s3
               ELSE Ok([s3 EXCEPT !.struct_types[obj].elems = s3.struct_elems_,
                                  !.struct_elems_ = <<>>],
                       StructRef(obj))

\* AnalyzeOn(FuncParamAST &).
AnalyzeOnFuncParam(ast, st) ==
  LET base == AnalyzeOnType(ast.type, st)
      type == HandleArray(base, ast.arr_lens, TRUE)
  IN  IF base = NoType \/ type = NoType THEN Err(st)
      ELSE IF st.in_func_
             THEN IF GetItem(st.symbols_, ast.id, FALSE) # NoType THEN Err(st)
                  ELSE Ok([st EXCEPT !.symbols_ = AddItem(@, ast.id, type)],
                          type)
           ELSE Ok(st, type)

\* The loop of AnalyzeOn(FuncDeclAST &) over the parameters; acc collects
\* their types.
RECURSIVE AnalyzeParams(_, _, _, _)
AnalyzeParams(params, i, st, acc) ==
  IF i > Len(params) THEN [st |-> Ok(st, Void), params |-> acc]
  ELSE LET r == AnalyzeOnFuncParam(params[i], st)
       IN  IF r.ret = NoType THEN [st |-> r, params |-> acc]
           ELSE AnalyzeParams(params, i + 1, r, Append(acc, r.ret))

\* AnalyzeOn(FuncDeclAST &) as the header of a function definition, where
\* in_func_ is set and the function goes into the scope outside the
\* function's own.
AnalyzeOnFuncDecl(ast, st) ==
  LET ret == AnalyzeOnType(ast.type, st)
  IN  IF ret = NoType THEN Err(st)
      ELSE
        LET s1 == IF st.in_func_ THEN [st EXCEPT !.cur_ret_ = ret] ELSE st
            ps == AnalyzeParams(ast.params, 1, s1, <<>>)
            s2 == ps.st
            type == FuncType(ps.params, ret)
            depth == IF s2.in_func_ THEN Len(s2.symbols_) - 1
                     ELSE Len(s2.symbols_)
            sym == SubSeq(s2.symbols_, 1, depth)
            s3 == [s2 EXCEPT !.symbols_[depth].items = (ast.id :> type) @@ @]
            known == ast.id \in DOMAIN s3.funcs_
        IN  IF s2.ret = NoType THEN s2
            ELSE IF GetItem(sym, ast.id, FALSE) # NoType THEN Err(s2)
            ELSE IF ~known
              THEN Ok([s3 EXCEPT !.funcs_ =
                         (ast.id :> [type |-> type, is_decl |-> ~s3.in_func_])
                           @@ @], type)
            ELSE IF s3.funcs_[ast.id].type # type THEN Err(s3)
            ELSE IF ~s3.funcs_[ast.id].is_decl /\ s3.in_func_ THEN Err(s3)
            ELSE IF s3.funcs_[ast.id].is_decl /\ s3.in_func_
              THEN Ok([s3 EXCEPT !.funcs_[ast.id].is_decl = FALSE], type)
            ELSE Ok(s3, type)

\* One return of AnalyzeOn(FuncDefAST / BlockAST): the kind of AST, whether
\* the call made scopes of its own, whether a type was returned, the scope
\* depth at the call, and whether the scopes current at the call are current
\* again.
Exit(kind, guarded, before, after) ==
  [ast |-> kind, guarded |-> guarded, ok |-> after.ret # NoType,
   depth |-> Len(before.symbols_),
   restored |-> ScopeIds(after) = ScopeIds(before)]

RECURSIVE SemaAnalyze(_, _)

\* The loop of AnalyzeOn(BlockAST &) over the statements.
RECURSIVE AnalyzeStmts(_, _, _)
AnalyzeStmts(stmts, i, st) ==
  IF i > Len(stmts) THEN Ok(st, Void)
  ELSE LET Rest(r) ==
             IF r.ret = NoType THEN r ELSE AnalyzeStmts(stmts, i + 1, r)
       IN  Once(SemaAnalyze(stmts[i], st), Rest)

\* AnalyzeOn(BlockAST &): a block that is not a function's body gets scopes
\* of its own, released by the guard on return.
AnalyzeOnBlock(ast, st) ==
  LET guarded == ~st.in_func_
      s1 == IF guarded THEN NewEnv(st) ELSE st
      s2 == [s1 EXCEPT !.in_func_ = FALSE]
      Return(s3) ==
        LET s4 == IF guarded THEN Release(s3) ELSE s3
        IN  [s4 EXCEPT !.exits = @ \cup {Exit("Block", guarded, st, s4)}]
  IN  Once(AnalyzeStmts(ast.stmts, 1, s2), Return)

\* AnalyzeOn(FuncDefAST &): the header and the body share the scopes made
\* here, released by the guard on return.
AnalyzeOnFuncDef(ast, st) ==
  LET s1 == [NewEnv(st) EXCEPT !.in_func_ = TRUE]
      Return(s2) == [s2 EXCEPT !.exits = @ \cup {Exit("FuncDef", TRUE, st, s2)}]
      Body(func) ==
        IF func.ret = NoType THEN Return(Release(func))
        ELSE LET AfterBody(body) ==
                   IF body.ret = NoType THEN Return(Release(body))
                   ELSE Return(Release(Ok(body, Void)))
             IN  Once(SemaAnalyze(ast.body, func), AfterBody)
  IN  Once(AnalyzeOnFuncDecl(ast.header, s1), Body)

\* ast.SemaAnalyze(*this): dispatch on the kind of AST.
SemaAnalyze(ast, st) ==
  LET Dispatch(s) ==
        CASE ast.ast = "TypeAlias" -> AnalyzeOnTypeAlias(ast, s)
          [] ast.ast = "StructDef" -> AnalyzeOnStructDef(ast, s)
          [] ast.ast = "EnumDef" -> AnalyzeOnEnumDef(ast, s)
          [] ast.ast = "Id" -> AnalyzeOnId(ast, s)
          [] ast.ast = "Block" -> AnalyzeOnBlock(ast, s)
          [] ast.ast = "FuncDef" -> AnalyzeOnFuncDef(ast, s)
  IN  Once(st, Dispatch)

InitSema == IdleDGE /\ IdleAlg /\ IdleLive /\ IdleSema /\ IdleBlock

\* The driver analyses the next top-level AST of the translation unit.
AnalyzeOn ==
  /\ sema_pc = "ready"
  /\ sema_calls < MaxDecls
  /\ \E ast \in TopASTs :
       \E r \in {SemaAnalyze(ast, SemaState)} :
           /\ symbols_' = r.symbols_
           /\ aliases_' = r.aliases_
           /\ structs_' = r.structs_
           /\ enums_' = r.enums_
           /\ in_func_' = r.in_func_
           /\ funcs_' = r.funcs_
           /\ cur_ret_' = r.cur_ret_
           /\ last_struct_name_' = r.last_struct_name_
           /\ struct_elems_' = r.struct_elems_
           /\ struct_elem_names_' = r.struct_elem_names_
           /\ struct_elem_base_' = r.struct_elem_base_
           /\ struct_types' = r.struct_types
           /\ sema_ast' = ast
           /\ sema_pre' = [symbols_ |-> symbols_, aliases_ |-> aliases_,
                           structs_ |-> structs_, enums_ |-> enums_]
           /\ sema_ret' = r.ret
           /\ sema_exits' = r.exits
  /\ sema_pc' = "analysed"
  /\ sema_calls' = sema_calls + 1
  /\ UNCHANGED <<dgeVars, algVars, liveVars, blockVars>>

\* The driver moves on to the next AST.
NextDecl ==
  /\ sema_pc = "analysed"
  /\ sema_pc' = "ready"
  /\ sema_ast' = [ast |-> "none"]
  /\ sema_pre' = <<>>
  /\ sema_ret' = NoType
  /\ sema_exits' = {}
  /\ UNCHANGED <<symbols_, aliases_, structs_, enums_, in_func_, funcs_,
                 cur_ret_, last_struct_name_, struct_elems_,
                 struct_elem_names_, struct_elem_base_, struct_types,
                 sema_calls, dgeVars, algVars, liveVars, blockVars>>

NextSema == AnalyzeOn \/ NextDecl

SpecSema == InitSema /\ [][NextSema]_vars

\* ---- scope release ----

\* C11: every call of AnalyzeOn on a function definition or a block returns,
\* with a type or with an error, with the scopes of the four tables that were
\* current before the call, and between top-level analyses the four tables
\* are at the depth they started from.
C11_ScopesReleased ==
  /\ \A e \in sema_exits : e.restored
  /\ \A t \in {symbols_, aliases_, structs_, enums_} :
       [i \in DOMAIN t |-> t[i].sid] = <<1>>

\* A function definition failed in a statement of a block nested in its
\* body, and a function definition failed in its header.
C11_Witness ==
  /\ sema_ast.ast = "FuncDef"
  /\ sema_ret = NoType
  /\ \E e \in sema_exits :
       e.ast = "Block" /\ e.guarded /\ ~e.ok /\ e.depth >= 2
  /\ \E e \in sema_exits : e.ast = "FuncDef" /\ ~e.ok

\* ---- type aliases ----

\* C12: a successful AnalyzeOn(TypeAliasAST) for identifier id adds id with
\* the aliased type to the current alias scope and leaves the enum, struct
\* and symbol scopes unchanged; a user-type reference to id then resolves to
\* the aliased type.
C12_AliasInAliasScope ==
  (sema_ast.ast = "TypeAlias" /\ sema_ret # NoType) =>
    /\ GetItem(aliases_, sema_ast.id, FALSE)
         = AnalyzeOnType(sema_ast.type, sema_pre)
    /\ AnalyzeOnType(UserTypeAST(sema_ast.id), SemaState)
         = AnalyzeOnType(sema_ast.type, sema_pre)
    /\ enums_ = sema_pre.enums_
    /\ structs_ = sema_pre.structs_
    /\ symbols_ = sema_pre.symbols_

\* ---- struct definitions ----

\* The StructType objects a value of the given type holds by value: the
\* struct itself, or the element struct of an array; a pointer holds none.
RECURSIVE ValueStructs(_)
ValueStructs(type) ==
  CASE type.kind = "struct" -> {type.obj}
    [] type.kind = "array" -> ValueStructs(type.base)
    [] OTHER -> {}

\* The StructType objects the fields of object o hold by value.
Contains(o) ==
  UNION {ValueStructs(struct_types[o].elems[i].type)
           : i \in DOMAIN struct_types[o].elems}

\* The objects held by value, directly or through other structs, by the
\* objects of S.
RECURSIVE ContainsTransitively(_)
ContainsTransitively(S) ==
  LET more == S \cup UNION {Contains(o) : o \in S}
  IN  IF more = S THEN S ELSE ContainsTransitively(more)

---------------------------------------------------------------------------
(***************************************************************************)
(* Algebraic simplification of a whole block                               *)
(***************************************************************************)

\* Upper bound on the number of binary instructions in front of a block's
\* terminator.
MaxBlockInsts == 2

\* The block's terminator, a return.
ReturnSSA == [k |-> "ret", v |-> 0]

\* A binary instruction as an object of its own: id tells two instructions
\* of the same opcode and operands apart.
InstSSA(id, op, l, r) == [k |-> "bin", op |-> op, l |-> l, r |-> r, id |-> id]

IsInstruction(v) == v.k \in {"bin", "ret"}

BlockOperators == {"Mul", "SDiv"}
BlockLeaves == {ArgSSA, ConstIntSSA(1), ConstIntSSA(4)}

\* The lists of n binary instructions whose operands are the argument, a
\* constant, or an instruction earlier in the list.
RECURSIVE BlockLists(_)
BlockLists(n) ==
  IF n = 0 THEN {<<>>}
  ELSE UNION {{Append(l, InstSSA(n, op, x, y)) :
                 op \in BlockOperators,
                 x \in BlockLeaves \cup SeqRange(l),
                 y \in BlockLeaves \cup SeqRange(l)}
              : l \in BlockLists(n - 1)}

\* Value::ReplaceBy: every operand slot that references old references new
\* afterwards, in v and in the instructions v refers to.
RECURSIVE ReplaceUses(_, _, _)
ReplaceUses(v, old, new) ==
  IF v = old THEN new
  ELSE IF v.k = "bin"
    THEN [v EXCEPT !.l = ReplaceUses(@, old, new),
                   !.r = ReplaceUses(@, old, new)]
  ELSE v

\* it->ReplaceBy(finalSSA_); it = finalSSA_; on slot i of the list. An
\* instruction the rewrite created is a new object.
StoreReplacement(list, i, repl) ==
  LET new == IF repl.k = "bin" /\ "id" \notin DOMAIN repl
               THEN InstSSA(Len(list) + i, repl.op, repl.l, repl.r)
               ELSE repl
  IN  [j \in DOMAIN list |->
         IF j = i THEN new
         ELSE IF list[j].k = "bin"
           THEN [list[j] EXCEPT !.l = ReplaceUses(@, list[i], new),
                                !.r = ReplaceUses(@, list[i], new)]
         ELSE list[j]]

\* The loop of RunOnBlock from slot i on.
RECURSIVE RunOnBlockFrom(_, _, _)
RunOnBlockFrom(list, i, s) ==
  IF i > Len(list) THEN [insts |-> list, s |-> s]
  ELSE LET it == list[i]
           s1 == RunPassSSA(it, s, CHOOSE ub \in OutcomesFor(it) : TRUE)
       IN  IF s1.needFold_
             THEN RunOnBlockFrom(StoreReplacement(list, i, s1.finalSSA_), i + 1,
                                 [s1 EXCEPT !.finalSSA_ = Null,
                                            !.needFold_ = FALSE])
             ELSE RunOnBlockFrom(list, i + 1, s1)

InitBlock ==
  /\ IdleDGE
  /\ IdleAlg
  /\ IdleLive
  /\ IdleSema
  /\ \E n \in 0..MaxBlockInsts :
       block_insts \in {Append(l, ReturnSSA) : l \in BlockLists(n)}
  /\ block_orig = block_insts
  /\ block_pc = "ready"

\* RunOnBlock(block) as a whole.
RunOnBlock ==
  /\ block_pc = "ready"
  /\ LET s0 == [operand_ |-> operand_, needFold_ |-> FALSE,
                changed_ |-> FALSE, finalSSA_ |-> finalSSA_, warn |-> 0]
         r == RunOnBlockFrom(block_insts, 1, s0)
     IN  /\ block_insts' = r.insts
         /\ operand_' = r.s.operand_
         /\ needFold_' = r.s.needFold_
         /\ changed_' = r.s.changed_
         /\ finalSSA_' = r.s.finalSSA_
         /\ alg_ret' = r.s.changed_
  /\ block_pc' = "done"
  /\ UNCHANGED <<block_orig, alg_pc, alg_cur, alg_repl, alg_warn, alg_pre,
                 dgeVars, liveVars, semaVars>>

NextBlock == RunOnBlock

SpecBlock == InitBlock /\ [][NextBlock]_vars

\* C14: after RunOnBlock every entry of the block's list is an instruction,
\* no value occurs in the list twice, the list has not grown, and the single
\* terminator is still the last entry.
C14_BlockListWellFormed ==
  block_pc = "done" =>
    /\ \A i \in DOMAIN block_insts : IsInstruction(block_insts[i])
    /\ \A i, j \in DOMAIN block_insts :
         block_insts[i] = block_insts[j] => i = j
    /\ Len(block_insts) <= Len(block_orig)
    /\ \A i \in DOMAIN block_insts :
         block_insts[i] = ReturnSSA <=> i = Len(block_insts)

---------------------------------------------------------------------------
(***************************************************************************)
(* CFG construction and def/use sets over the full instruction alphabet    *)
(***************************************************************************)

\* Upper bound on the length of the instruction lists of this part.
MaxCFGInsts == 3

\* A physical register operand.
PReg(r) == [kind |-> "preg", id |-> r]

\* A pop that loads pc leaves the function.
IsExitPop(inst) == inst.opcode = "POP" /\ PReg("pc") \in SeqRange(inst.oprs)

\* The instructions of this part: those of InstSet, the BNE branch, a pop
\* of pc and a pop of another register, an instruction that reads and
\* defines the same virtual register, and a use and a definition of a
\* physical register.
CFGInstSet ==
  InstSet
  \cup {Inst("BNE", <<LabelOpr(l)>>, NoDest) : l \in Labels}
  \cup {Inst("POP", <<PReg(r)>>, NoDest) : r \in {"pc", "r4"}}
  \cup {Inst("ADD", <<VReg(r)>>, VReg(r)) : r \in VirtualRegs}
  \cup {Inst("CMP", <<PReg("r4")>>, NoDest), Inst("MOV", <<>>, PReg("r4"))}

\* The conditional branches of the target.
CondBranches == {"BEQ", "BNE"}

\* Every label is defined at most once and every branch goes to a label of
\* the list.
WellFormedCFG(is) ==
  /\ \A i, j \in DOMAIN is :
       (is[i].opcode = "LABEL" /\ is[j].opcode = "LABEL"
          /\ is[i].oprs = is[j].oprs) => i = j
  /\ \A i \in DOMAIN is :
       is[i].opcode \in {"B"} \cup CondBranches =>
         \E j \in DOMAIN is : is[j].opcode = "LABEL" /\ is[j].oprs = is[i].oprs

InitCFG ==
  /\ IdleDGE
  /\ IdleAlg
  /\ IdleSema
  /\ IdleBlock
  /\ \E n \in 1..MaxCFGInsts :
       insts \in {is \in [1..n -> CFGInstSet] : WellFormedCFG(is)}
  /\ labels_ = <<>>
  /\ next_bid_ = 0
  /\ bbs_ = <<>>
  /\ order_ = <<>>
  /\ rpo = <<>>
  /\ live_changed = FALSE
  /\ live_intervals = <<>>
  /\ live_pc = "start"

NextCFG == BuildCFG \/ InitDefUseInfo

SpecCFG == InitCFG /\ [][NextCFG]_vars

\* bbs_.at(id) where the block exists, an empty block where BuildCFG never
\* touched it.
BlockOf(id) == IF id \in DOMAIN bbs_ THEN bbs_[id] ELSE EmptyBlock

\* The number of occurrences of x in a list.
Count(seq, x) == Cardinality({i \in DOMAIN seq : seq[i] = x})

\* The edges from block B to block N that BuildCFG recorded for the B and BEQ
\* instructions of B.
TakenEdges(B, N) ==
  LET is == BlockOf(B).insts
  IN  Cardinality({i \in DOMAIN is :
                     /\ is[i].opcode \in {"B", "BEQ"}
                     /\ labels_[is[i].oprs[1].id] = N})

\* The last instruction of block B is not an unconditional branch, a return
\* or a function-exiting pop; an empty block falls through.
FallsThrough(B) ==
  LET is == BlockOf(B).insts
  IN  \/ is = <<>>
      \/ /\ is[Len(is)].opcode \notin {"B", "BX"}
         /\ ~IsExitPop(is[Len(is)])

\* C15: BuildCFG adds a fall-through edge from block B to the block that
\* follows it in linear order if and only if B's last instruction is not an
\* unconditional branch, a return or a function-exiting pop, and records it
\* both in succs(B) and in preds of the following block.
C15_FallThroughEdges ==
  live_pc = "built" =>
    \A i \in 1..(Len(order_) - 1) :
      LET B == order_[i]
          N == order_[i + 1]
      IN  /\ Count(BlockOf(B).succs, N) - TakenEdges(B, N)
               = IF FallsThrough(B) THEN 1 ELSE 0
          /\ Count(BlockOf(N).preds, B) = Count(BlockOf(B).succs, N)

\* The block that holds the n-th instruction that is not a label: blocks
\* hold consecutive instructions in the order of order_. HomeFrom searches
\* from position j of order_ on.
RECURSIVE HomeFrom(_, _)
HomeFrom(n, j) ==
  IF n <= Len(BlockOf(order_[j]).insts) THEN order_[j]
  ELSE HomeFrom(n - Len(BlockOf(order_[j]).insts), j + 1)

\* The block that holds instruction i of the list (not a label).
Home(i) ==
  HomeFrom(Cardinality({k \in 1..i : insts[k].opcode # "LABEL"}), 1)

\* There is an edge from block B to block N, in succs and in preds.
HasEdge(B, N) ==
  N \in SeqRange(BlockOf(B).succs) /\ B \in SeqRange(BlockOf(N).preds)

\* C16: for every conditional branch of the list, the last instruction
\* included, BuildCFG completes and produces the taken edge to the block of
\* the label and the fall-through edge to what follows: to a new block
\* split off there, unless the next instruction is a branch (which stays in
\* the block) or a label (whose block gets the edge).
C16_CondBranchEdges ==
  live_pc \in {"built", "crashed"} =>
    /\ live_pc = "built"
    /\ \A i \in DOMAIN insts :
         insts[i].opcode \in CondBranches =>
           LET B == Home(i)
           IN  /\ insts[i].oprs[1].id \in DOMAIN labels_
               /\ HasEdge(B, labels_[insts[i].oprs[1].id])
               /\ i < Len(insts) =>
                    IF insts[i + 1].opcode = "LABEL"
                      THEN HasEdge(B, labels_[insts[i + 1].oprs[1].id])
                    ELSE IF insts[i + 1].opcode = "B" THEN Home(i + 1) = B
                    ELSE Home(i + 1) # B /\ HasEdge(B, Home(i + 1))

\* C17: after InitDefUseInfo, var_kill of every block is the set of virtual
\* registers that are the destination of one of its instructions, and
\* ue_var is the set of virtual registers read by one of its instructions
\* with no earlier instruction of the block defining them; physical
\* registers are in neither set.
C17_DefUseSets ==
  live_pc = "defuse" =>
    \A b \in DOMAIN bbs_ :
      LET is == bbs_[b].insts
      IN  /\ bbs_[b].var_kill
               = {is[i].dest : i \in {k \in DOMAIN is : IsVirtual(is[k].dest)}}
          /\ bbs_[b].ue_var
               = UNION {{v \in SeqRange(is[i].oprs) :
                           /\ IsVirtual(v)
                           /\ \A k \in 1..(i - 1) : is[k].dest # v}
                        : i \in DOMAIN is}
          /\ \A v \in bbs_[b].var_kill \cup bbs_[b].ue_var : v.kind # "preg"

\* A block reads and defines a virtual register in one instruction, reads
\* it again afterwards, and uses a physical register.
C17_Witness ==
  /\ live_pc = "defuse"
  /\ \E b \in DOMAIN bbs_ :
       LET is == bbs_[b].insts
       IN  /\ \E i, j \in DOMAIN is :
                /\ i < j
                /\ is[i].opcode = "ADD"
                /\ is[i].dest \in SeqRange(is[j].oprs)
           /\ \E i \in DOMAIN is :
                \E k \in DOMAIN is[i].oprs : is[i].oprs[k].kind = "preg"
           /\ bbs_[b].ue_var = bbs_[b].var_kill
           /\ bbs_[b].ue_var # {}

---------------------------------------------------------------------------
(***************************************************************************)
(* Liveness: fixpoint and interval endpoints                               *)
(***************************************************************************)

\* RunLivenessAnalysis has returned: its loop ended with changed false.
LivenessReturned ==
  \/ live_pc = "rpo" /\ ~live_changed
  \/ live_pc = "done"

\* C18: when RunLivenessAnalysis returns, live_out of every block of the
\* CFG is the union over its successors S of
\* ue_var(S) \cup (live_out(S) \ var_kill(S)), and is the least such
\* solution.
C18_LivenessFixpoint ==
  LivenessReturned =>
    \A b \in DOMAIN bbs_ :
      /\ bbs_[b].live_out
           = UNION {bbs_[bbs_[b].succs[i]].ue_var
                      \cup (bbs_[bbs_[b].succs[i]].live_out
                              \ bbs_[bbs_[b].succs[i]].var_kill)
                    : i \in DOMAIN bbs_[b].succs}
      /\ bbs_[b].live_out = ExactLiveOut[b]

\* The positions, in the linear order of the blocks, at which virtual
\* register v is in var_kill, ue_var or live_out.
Positions(v) ==
  {i - 1 : i \in {k \in DOMAIN order_ :
                    v \in BlockOf(order_[k]).var_kill
                           \cup BlockOf(order_[k]).ue_var
                           \cup BlockOf(order_[k]).live_out}}

\* The instructions of the blocks of order_ from index i on, block after
\* block.
RECURSIVE InstsInOrder(_)
InstsInOrder(i) ==
  IF i > Len(order_) THEN <<>>
  ELSE BlockOf(order_[i]).insts \o InstsInOrder(i + 1)

IsNotLabel(inst) == inst.opcode # "LABEL"

\* C19: positions follow the linear order of the instruction list, and for
\* every virtual register v, start_pos is the earliest and end_pos the
\* latest position at which v is in var_kill, ue_var or live_out, so
\* start_pos <= end_pos; a register in none of these sets has no interval
\* and every register in one of them has an interval.
C19_IntervalEndpoints ==
  live_pc = "done" =>
    /\ InstsInOrder(1) = SelectSeq(insts, IsNotLabel)
    /\ \A r \in VirtualRegs :
      LET v == VReg(r)
          P == Positions(v)
      IN  IF P = {} THEN v \notin DOMAIN live_intervals
          ELSE /\ v \in DOMAIN live_intervals
               /\ live_intervals[v].start_pos = CHOOSE p \in P : \A q \in P : p <= q
               /\ live_intervals[v].end_pos = MaxOf(P)
               /\ live_intervals[v].start_pos <= live_intervals[v].end_pos

\* A register whose interval starts after the first block and ends in a
\* later block than it starts in.
C19_Witness ==
  /\ live_pc = "done"
  /\ \E v \in DOMAIN live_intervals :
       /\ 0 < live_intervals[v].start_pos
       /\ live_intervals[v].start_pos < live_intervals[v].end_pos

\* ---- termination of the liveness iteration ----

\* The pass before it is given a function.
InitPass == IdleDGE /\ IdleAlg /\ IdleLive /\ IdleSema /\ IdleBlock

\* RunOn(func_label, insts) up to the call of BuildCFG: the pass is given
\* the instruction list of a function, one the selector emits or any other
\* list whose branches go to labels of the function, and Reset() clears
\* what the last function left.
RunOn ==
  /\ live_pc = "idle"
  /\ insts' \in UNION {{is \in [1..n -> InstSet] : WellFormed(is)}
                         : n \in 1..MaxInsts}
               \cup UNION {{is \in [1..n -> CFGInstSet] : WellFormedCFG(is)}
                              : n \in 1..MaxCFGInsts}
  /\ labels_' = <<>>
  /\ bbs_' = <<>>
  /\ order_' = <<>>
  /\ live_pc' = "start"
  /\ UNCHANGED <<next_bid_, rpo, live_changed, live_intervals,
                 dgeVars, algVars, semaVars, blockVars>>

NextLiveFair == RunOn \/ NextLive

\* The pass runs on: while (changed) takes its next round as long as the
\* last one changed a live_out set.
SpecLiveFair == InitPass /\ [][NextLiveFair]_vars /\ WF_vars(LivenessRound)

\* A round of the while loop: the only step that starts and ends inside
\* RunLivenessAnalysis.
IsRound == live_pc = "rpo" /\ live_pc' = "rpo"

\* The round kept every register of every live_out set.
OnlyAdds ==
  \A b \in DOMAIN bbs_ :
    b \in DOMAIN bbs_' /\ bbs_[b].live_out \subseteq bbs_'[b].live_out

\* The round added a register to some live_out set.
AddedSome ==
  \E b \in DOMAIN bbs_' : Touch(bbs_, b)[b].live_out # bbs_'[b].live_out

\* C21: the iteration of RunLivenessAnalysis stops after finitely many
\* rounds, on CFGs with loops, self-loops and unreachable blocks alike: each
\* round only adds registers to live_out sets, changed is set exactly by a
\* round that added one, and a round with changed unset is reached, after
\* which no further round runs.
C21_LivenessTerminates ==
  /\ [][IsRound => live_changed /\ OnlyAdds /\ live_changed' = AddedSome]_vars
  /\ (live_pc = "rpo") ~> (live_pc = "rpo" /\ ~live_changed)

\* The block of the given id is its own successor.
SelfLoop(b) == \E i \in DOMAIN bbs_[b].succs : bbs_[b].succs[i] = b

\* The iteration has stopped on a CFG with a self-loop whose block has a
\* register live out, with a block outside the traversal order of the
\* iteration, and with a register live out of a block that reached it
\* through another block.
C21_Witness ==
  /\ live_pc = "rpo"
  /\ ~live_changed
  /\ \E b \in DOMAIN bbs_ : SelfLoop(b) /\ bbs_[b].live_out # {}
  /\ \E b \in DOMAIN bbs_ : \A i \in DOMAIN rpo : rpo[i] # b
  /\ \E b \in DOMAIN bbs_ :
       \E v \in bbs_[b].live_out :
         \A i \in DOMAIN bbs_[b].succs : v \notin bbs_[bbs_[b].succs[i]].ue_var

---------------------------------------------------------------------------
(***************************************************************************)
(* Algebraic simplification: scratch state between visits                  *)
(***************************************************************************)

\* What the visit of instruction it replaces it by (Null when it is kept)
\* when the visit starts with no collected constant and the fold flag down.
CleanOutcome(it, ub) ==
  LET s == RunPassSSA(it, [operand_ |-> <<>>, needFold_ |-> FALSE,
                           changed_ |-> FALSE, finalSSA_ |-> Null,
                           warn |-> 0], ub)
  IN  IF s.needFold_ THEN s.finalSSA_ ELSE Null

\* C20: at the start of every top-level instruction visit of RunOnBlock the
\* list of collected constants is empty and the fold flag is false, and the
\* instruction visited gets the outcome it gets from that clean state,
\* whatever was visited before it.
C20_ScratchStateClean ==
  /\ alg_pc = "scan" => (operand_ = <<>> /\ ~needFold_)
  /\ alg_pc = "visited" =>
       \E ub \in OutcomesFor(alg_cur) : alg_repl = CleanOutcome(alg_cur, ub)

===========================================================================
